---- MODULE Spec2Model ----
(***************************************************************************)
(* Model of cryptii's Pipe (src/unnamed/part_000): an ordered array of     *)
(* Bricks mirrored into a lazily created PipeView, with serialize/extract, *)
(* and of its Setting (src/src/Setting.js): a value that is validated,     *)
(* filtered, stored and announced to a delegate.                           *)
(* Array indexes are JavaScript's (0-based); sequences are TLA+'s          *)
(* (1-based), so element i of an array is arr[i + 1].                      *)
(***************************************************************************)
EXTENDS Integers, Sequences, FiniteSets, TLC

\* ---------------------------------------------------------------- bounds
\* The longest brick array a Pipe is grown to, and the most arguments after
\* the index that one insertBrick, addBrick or removeBrick call is given.
MaxLen == 3
MaxArgs == 2
\* The deepest nesting of setValue calls (a delegate calling back into the
\* Setting) the call stack holds; one more frame overflows it.
MaxDepth == 3

\* ---------------------------------------------------------------- universe
Null == "null"
Pipes == {"p1", "p2"}
\* The Brick objects, by identity.
Bricks == {"b1", "b2", "b3"}
\* Index arguments: negative, valid, and beyond any array the model holds.
Indexes == (-2)..MaxLen
Titles == {Null, "demo"}

VARIABLES bricks, brickPipe, view, children, createViewCalls,
          title, description, call, thrown, result,
          setting, scall, notified, previous

\* The Setting, the call made on it, the delegate calls that call made, and
\* the call made before it with the number of delegate calls it made.
settingVars == <<setting, scall, notified, previous>>

vars == <<bricks, brickPipe, view, children, createViewCalls,
          title, description, call, thrown, result, settingVars>>

\* ---------------------------------------------------------------- helpers
Max(a, b) == IF a > b THEN a ELSE b
Min(a, b) == IF a < b THEN a ELSE b
Range(s) == {s[i] : i \in 1..Len(s)}
SeqsUpTo(S, n) == UNION {[1..k -> S] : k \in 0..n}

\* A removeBrick argument: a Brick object or a number.
BrickArg(b) == [kind |-> "brick", val |-> b]
IndexArg(i) == [kind |-> "index", val |-> i]
Elements == {BrickArg(b) : b \in Bricks} \cup {IndexArg(i) : i \in Indexes}

\* Array.prototype.indexOf: first 0-based position of x, or -1.
IndexOf(arr, x) ==
  IF \E i \in 1..Len(arr) : arr[i] = x
  THEN (CHOOSE i \in 1..Len(arr) : arr[i] = x /\ \A j \in 1..(i - 1) : arr[j] # x) - 1
  ELSE -1

\* A plausible slip in the splice call: the items always go to the tail.
SpliceInsertAtTail(arr, start, items) == arr \o items

\* Array.prototype.splice(start, 0, ...items): a negative start counts from
\* the end (clamped at 0), a start beyond the length is clamped to the length.
SpliceInsert(arr, start, items) ==
  LET len == Len(arr)
      actualStart == IF start < 0 THEN Max(len + start, 0) ELSE Min(start, len)
  IN SubSeq(arr, 1, actualStart) \o items \o SubSeq(arr, actualStart + 1, len)

\* Array.prototype.splice(index, 1) for an index that holds an element.
SpliceRemove(arr, index) ==
  SubSeq(arr, 1, index) \o SubSeq(arr, index + 2, Len(arr))

\* Array.prototype.filter(index => index !== -1)
FilterNotFound(s) == SelectSeq(s, LAMBDA x : x # -1)

\* Array.prototype.sort((a, b) => b - a): descending numeric order.
RECURSIVE InsertDesc(_, _)
InsertDesc(s, x) ==
  IF s = <<>> THEN <<x>>
  ELSE IF x > Head(s) THEN <<x>> \o s
  ELSE <<Head(s)>> \o InsertDesc(Tail(s), x)

RECURSIVE SortDesc(_)
SortDesc(s) == IF s = <<>> THEN <<>> ELSE InsertDesc(SortDesc(Tail(s)), Head(s))

\* ---------------------------------------------------------------- collaborators
\* Brick.getView(): the one view object of a brick.
BrickView(b) == [viewOf |-> b]

\* View.addSubview(view): the child is appended to the child list.
AddSubview(subviews, v) == Append(subviews, v)

\* View.removeSubview(view): that child is deleted from the child list.
RemoveSubview(subviews, v) ==
  IF IndexOf(subviews, v) = -1 THEN subviews
  ELSE SpliceRemove(subviews, IndexOf(subviews, v))

\* Brick.setPipe(pipe): the single back-reference slot is replaced.
SetPipe(bp, b, p) == [bp EXCEPT ![b] = p]

\* Brick.serialize(): the brick's record.
BrickSerialize(b) == [brick |-> b]

\* ---------------------------------------------------------------- Pipe
\* new PipeView(): a fresh view object, named after the Pipe that owns it.
CreateView(p) == IF p = "p1" THEN "view1" ELSE "view2"

\* The state of one Pipe and of the bricks during a call on it.
PipeState(p) ==
  [bricks |-> bricks[p], brickPipe |-> brickPipe, view |-> view[p],
   children |-> children[p], createViewCalls |-> createViewCalls[p],
   thrown |-> "none"]

\* A slip in getView: the view is created on every call.
GetViewOnAlwaysCreating(p, st) ==
  [st EXCEPT !.view = CreateView(p),
             !.createViewCalls = Min(st.createViewCalls + 1, 2)]

\* getView(): creates the view when there is none.
GetViewOn(p, st) ==
  IF st.view = Null
  THEN [st EXCEPT !.view = CreateView(p),
                  !.createViewCalls = st.createViewCalls + 1]
  ELSE st

\* insertBrick, the body of bricks.forEach for one brick.
InsertEach(p, st, b) ==
  LET st1 == [st EXCEPT !.brickPipe = SetPipe(st.brickPipe, b, p)]
      st2 == GetViewOn(p, st1)
  IN [st2 EXCEPT !.children = AddSubview(st2.children, BrickView(b))]

RECURSIVE InsertForEach(_, _, _)
InsertForEach(p, st, bs) ==
  IF bs = <<>> THEN st
  ELSE InsertForEach(p, InsertEach(p, st, Head(bs)), Tail(bs))

\* insertBrick(index, ...bricks)
InsertBrickOn(p, st, index, bs) ==
  InsertForEach(p, [st EXCEPT !.bricks = SpliceInsert(st.bricks, index, bs)], bs)

\* removeBrick, the map step: a Brick becomes its index, a number stays.
MapToIndex(arr, e) == IF e.kind = "brick" THEN IndexOf(arr, e.val) ELSE e.val

MapToIndexes(arr, elements) ==
  [i \in 1..Len(elements) |-> MapToIndex(arr, elements[i])]

\* removeBrick, the body of forEach for one index: this._bricks[index] is
\* undefined outside 0..length-1 and brick.setPipe then throws a TypeError.
RemoveEach(p, st, index) ==
  IF index < 0 \/ index >= Len(st.bricks)
  THEN [st EXCEPT !.thrown = "TypeError"]
  ELSE LET brick == st.bricks[index + 1]
           st1 == [st EXCEPT !.brickPipe = SetPipe(st.brickPipe, brick, Null),
                             !.bricks = SpliceRemove(st.bricks, index)]
           st2 == GetViewOn(p, st1)
       IN [st2 EXCEPT !.children = RemoveSubview(st2.children, BrickView(brick))]

\* forEach stops at the first exception.
RECURSIVE RemoveForEach(_, _, _)
RemoveForEach(p, st, indexes) ==
  IF indexes = <<>> \/ st.thrown # "none" THEN st
  ELSE RemoveForEach(p, RemoveEach(p, st, Head(indexes)), Tail(indexes))

\* removeBrick(...elements)
RemoveBrickOn(p, st, elements) ==
  RemoveForEach(p, st, SortDesc(FilterNotFound(MapToIndexes(st.bricks, elements))))

\* Structured data: data.bricks is a dynamically typed value, held as its
\* type (bricksType) and, for an array, its elements (bricks).
NotArrays == {"undefined", "null", "string", "number", "object"}
NoData == [title |-> Null, description |-> Null, bricksType |-> "undefined", bricks |-> <<>>]

\* serialize()
Serialize(p) ==
  [title |-> title[p], description |-> description[p], bricksType |-> "array",
   bricks |-> [i \in 1..Len(bricks[p]) |-> BrickSerialize(bricks[p][i])]]

\* Array.isArray(data.bricks)
IsArray(data) == data.bricksType = "array"

\* A slip that drops the verification: data.bricks.map is then called on a
\* value that has no map method.
ExtractNoVerify(data) ==
  IF ~IsArray(data)
  THEN [thrown |-> "TypeError", pipe |-> Null, serialized |-> NoData,
        bricksExtracted |-> 0]
  ELSE [thrown |-> "TypeError", pipe |-> Null, serialized |-> NoData,
        bricksExtracted |-> Len(data.bricks)]

\* static extract(data): the verification throws the malformed-data Error;
\* otherwise Brick.extract is called on every element of data.bricks, a Pipe
\* is constructed, and pipe.add.apply is evaluated: the class defines no
\* method add, so pipe.add is undefined and reading apply from it throws a
\* TypeError before title and description are set and the Pipe is returned.
\* pipe is the returned Pipe (Null when none is), serialized what it
\* serializes to, bricksExtracted the number of Brick.extract calls made.
Extract(data) ==
  IF ~IsArray(data)
  THEN [thrown |-> "Error", pipe |-> Null, serialized |-> NoData,
        bricksExtracted |-> 0]
  ELSE [thrown |-> "TypeError", pipe |-> Null, serialized |-> NoData,
        bricksExtracted |-> Len(data.bricks)]

\* ---------------------------------------------------------------- Setting
\* JavaScript values a Setting is given, each written as its literal.
Values == {"undefined", "null", "false", "true", "0", "5", "NaN",
           "''", "'ABC'", "'abc'", "object"}

\* An array that a filter callback has built. Every application of such a
\* filter builds a new array, and the only arrays a Setting compares are the
\* one it holds and the one its filter has just built, so that an array is
\* strictly equal to no value, another array included; = between two arrays
\* compares what they are, not which they are.
Array == "array"

\* typeof value
TypeOf(v) ==
  CASE v = "undefined" -> "undefined"
    [] v \in {"null", "object", Array} -> "object"
    [] v \in {"false", "true"} -> "boolean"
    [] v \in {"0", "5", "NaN"} -> "number"
    [] OTHER -> "string"

\* a !== b: NaN differs from every value, itself included, and so does an
\* array that has just been built.
StrictNotEqual(a, b) == a # b \/ a = "NaN" \/ a = Array

\* The value of (v || null): null for every falsy v.
OrNull(v) == IF v \in {"undefined", "null", "false", "0", "NaN", "''"} THEN Null ELSE v

\* The callbacks a Setting is constructed with; "none" is an absent callback.
Validators == {"none", "isNumber", "isString"}
Filters == {"none", "lowerCase", "negate", "wrap"}
Randomizers == {"none", "random"}

\* spec.validateValue(setting, rawValue)
ValidateCallback(kind, raw) ==
  IF kind = "isNumber" THEN TypeOf(raw) = "number" ELSE TypeOf(raw) = "string"

\* spec.filterValue(setting, rawValue): lowerCase lowers a string and negate
\* swaps the booleans, both leaving every other value as it is; wrap returns
\* a new array holding the value, (setting, value) => [value].
FilterCallback(kind, raw) ==
  CASE kind = "lowerCase" -> (IF raw = "'ABC'" THEN "'abc'" ELSE raw)
    [] kind = "negate" -> (IF raw = "true" THEN "false"
                           ELSE IF raw = "false" THEN "true" ELSE raw)
    [] OTHER -> Array

\* The objects that act as delegate or sender: one whose
\* settingValueDidChange does nothing, and one whose settingValueDidChange
\* calls setValue on the Setting again with the raw value being set.
Delegates == {"observer", "reenterer"}

\* new Setting(name, spec)
NewSetting(default, validate, filter, randomize) ==
  [value |-> OrNull(default), valid |-> TRUE, delegate |-> Null,
   validateValueCallback |-> validate, filterValueCallback |-> filter,
   randomizeValueCallback |-> randomize]

\* validateValue(rawValue)
ValidateValue(s, raw) ==
  IF s.validateValueCallback # "none"
  THEN ValidateCallback(s.validateValueCallback, raw)
  ELSE TRUE

\* filterValue(rawValue)
FilterValue(s, raw) ==
  IF s.filterValueCallback # "none"
  THEN FilterCallback(s.filterValueCallback, raw)
  ELSE raw

\* hasDelegate()
HasDelegate(s) == s.delegate # Null

\* A slip in the notification test: the sender is not looked at.
ShouldNotifyIgnoringSender(s, sender) == HasDelegate(s)

\* setValue: this.hasDelegate() && this.getDelegate() !== sender
ShouldNotify(s, sender) == HasDelegate(s) /\ s.delegate # sender

\* A slip in the change test: every valid value counts as a change.
ValueChangedAlways(s, value) == TRUE

\* setValue: this._value !== value
ValueChanged(s, value) == StrictNotEqual(s.value, value)

\* The state of the Setting during a call: the Setting, the delegate calls
\* made so far and the exception thrown.
SettingState == [setting |-> setting, notified |-> <<>>, thrown |-> "none"]

\* delegate.settingValueDidChange(this, value), as the delegate sees it:
\* read is what getValue() returns inside the callback, depth the nesting of
\* the setValue call that makes the call.
Notification(st, value, depth) ==
  [delegate |-> st.setting.delegate, value |-> value,
   read |-> st.setting.value, depth |-> depth]

\* A slip in the invalid branch: the last good value is kept.
RejectValueKeepingLast(st, raw) == [st EXCEPT !.setting.valid = FALSE]

\* setValue, the invalid branch: the flag is false and the raw value stored.
RejectValue(st, raw) == [st EXCEPT !.setting.valid = FALSE, !.setting.value = raw]

\* A slip in the changed branch: the filtered value is not stored.
StoreValueOmitted(st, value) == [st EXCEPT !.setting.valid = TRUE]

\* setValue, the changed branch: the flag is true and the filtered value stored.
StoreValue(st, value) == [st EXCEPT !.setting.valid = TRUE, !.setting.value = value]

\* setValue(rawValue, sender) at nesting depth; a frame beyond MaxDepth
\* overflows the stack and the RangeError unwinds every frame.
RECURSIVE SetValueOn(_, _, _, _)
SetValueOn(st, raw, sender, depth) ==
  IF depth > MaxDepth THEN [st EXCEPT !.thrown = "RangeError"]
  ELSE
    LET isValid == ValidateValue(st.setting, raw)
        value == FilterValue(st.setting, raw)
        stored == StoreValue(st, value)
        told == [stored EXCEPT
                   !.notified = Append(stored.notified, Notification(stored, value, depth))]
    IN IF ~isValid
       THEN RejectValue(st, raw)
       ELSE IF ~ValueChanged(st.setting, value)
       THEN [st EXCEPT !.setting.valid = TRUE]
       ELSE IF ~ShouldNotify(st.setting, sender)
       THEN stored
       ELSE IF st.setting.delegate = "reenterer"
       THEN SetValueOn(told, raw, Null, depth + 1)
       ELSE told

\* randomizeValue(random): the callback draws any value, no callback gives
\* the current value.
RandomizeValue(s) ==
  IF s.randomizeValueCallback # "none" THEN Values ELSE {s.value}

\* A slip in the type test: typeof null and of an object pass it too.
SerializableOrObject(v) == TypeOf(v) \in {"boolean", "number", "string", "object"}

\* serializeValue: the typeof test
Serializable(v) == TypeOf(v) \in {"boolean", "number", "string"}

\* ---------------------------------------------------------------- state machine
\* call is the call in progress or just finished, thrown the exception it
\* raised, result what it returned. Calls are synchronous and single-threaded:
\* the caller makes its next call after the previous one has come back.
NoCall == [op |-> "none", pipe |-> Null, index |-> 0, bricks |-> <<>>,
           elements |-> <<>>, data |-> NoData]
NoResult == [pipe |-> Null, bricksExtracted |-> 0, serialized |-> NoData]
\* The call on the Setting: its arguments, the exception it threw and what it
\* returned (the Setting itself for the fluent methods).
NoSettingCall == [op |-> "none", raw |-> "undefined", sender |-> Null,
                  thrown |-> "none", returned |-> "undefined"]
NoPrevious == [call |-> NoSettingCall, notifications |-> 0]

\* No call is in progress: the caller may make its next call.
Idle == call = NoCall

\* new Pipe()
InitPipe ==
  /\ bricks = [p \in Pipes |-> <<>>]
  /\ brickPipe = [b \in Bricks |-> Null]
  /\ view = [p \in Pipes |-> Null]
  /\ children = [p \in Pipes |-> <<>>]
  /\ createViewCalls = [p \in Pipes |-> 0]
  /\ title = [p \in Pipes |-> Null]
  /\ description = [p \in Pipes |-> Null]
  /\ Idle
  /\ thrown = "none"
  /\ result = NoResult

\* The Pipes, beside a Setting constructed without spec that is left alone.
Init ==
  /\ InitPipe
  /\ setting = NewSetting("undefined", "none", "none", "none")
  /\ scall = NoSettingCall
  /\ notified = <<>>
  /\ previous = NoPrevious

\* Writes the state a structural call leaves behind.
Commit(p, st) ==
  /\ bricks' = [bricks EXCEPT ![p] = st.bricks]
  /\ brickPipe' = st.brickPipe
  /\ view' = [view EXCEPT ![p] = st.view]
  /\ children' = [children EXCEPT ![p] = st.children]
  /\ createViewCalls' = [createViewCalls EXCEPT ![p] = st.createViewCalls]
  /\ thrown' = st.thrown
  /\ result' = NoResult

InsertBrick(p, index, bs) ==
  /\ Idle
  /\ Len(bricks[p]) + Len(bs) <= MaxLen
  /\ call' = [NoCall EXCEPT !.op = "insertBrick", !.pipe = p, !.index = index, !.bricks = bs]
  /\ \E st \in {InsertBrickOn(p, PipeState(p), index, bs)} : Commit(p, st)
  /\ UNCHANGED <<title, description, settingVars>>

\* addBrick(...bricks) is insertBrick(-1, ...bricks)
AddBrick(p, bs) ==
  /\ Idle
  /\ Len(bricks[p]) + Len(bs) <= MaxLen
  /\ call' = [NoCall EXCEPT !.op = "addBrick", !.pipe = p, !.index = -1, !.bricks = bs]
  /\ \E st \in {InsertBrickOn(p, PipeState(p), -1, bs)} : Commit(p, st)
  /\ UNCHANGED <<title, description, settingVars>>

RemoveBrick(p, elements) ==
  /\ Idle
  /\ call' = [NoCall EXCEPT !.op = "removeBrick", !.pipe = p, !.elements = elements]
  /\ \E st \in {RemoveBrickOn(p, PipeState(p), elements)} : Commit(p, st)
  /\ UNCHANGED <<title, description, settingVars>>

GetView(p) ==
  /\ Idle
  /\ call' = [NoCall EXCEPT !.op = "getView", !.pipe = p]
  /\ \E st \in {GetViewOn(p, PipeState(p))} : Commit(p, st)
  /\ UNCHANGED <<title, description, settingVars>>

SetTitle(p, t) ==
  /\ Idle
  /\ call' = [NoCall EXCEPT !.op = "setTitle", !.pipe = p]
  /\ title' = [title EXCEPT ![p] = t]
  /\ thrown' = "none"
  /\ result' = NoResult
  /\ UNCHANGED <<bricks, brickPipe, view, children, createViewCalls, description,
               settingVars>>

SetDescription(p, d) ==
  /\ Idle
  /\ call' = [NoCall EXCEPT !.op = "setDescription", !.pipe = p]
  /\ description' = [description EXCEPT ![p] = d]
  /\ thrown' = "none"
  /\ result' = NoResult
  /\ UNCHANGED <<bricks, brickPipe, view, children, createViewCalls, title,
               settingVars>>

SerializeCall(p) ==
  /\ Idle
  /\ call' = [NoCall EXCEPT !.op = "serialize", !.pipe = p]
  /\ result' = [NoResult EXCEPT !.serialized = Serialize(p)]
  /\ thrown' = "none"
  /\ UNCHANGED <<bricks, brickPipe, view, children, createViewCalls, title, description,
               settingVars>>

\* The data handed to Pipe.extract: what a Pipe serializes to, or the same
\* record with bricks replaced by a value that is no array.
ExtractInputs(ps) ==
  {Serialize(p) : p \in ps} \cup
  {[Serialize(p) EXCEPT !.bricksType = x, !.bricks = <<>>] : p \in ps, x \in NotArrays}

ExtractCall(data) ==
  /\ Idle
  /\ call' = [NoCall EXCEPT !.op = "extract", !.data = data]
  /\ LET out == Extract(data)
     IN /\ thrown' = out.thrown
        /\ result' = [pipe |-> out.pipe, bricksExtracted |-> out.bricksExtracted,
                      serialized |-> out.serialized]
  /\ UNCHANGED <<bricks, brickPipe, view, children, createViewCalls, title, description,
               settingVars>>

\* The call has come back to its caller.
Return ==
  /\ ~Idle
  /\ call' = NoCall
  /\ thrown' = "none"
  /\ result' = NoResult
  /\ UNCHANGED <<bricks, brickPipe, view, children, createViewCalls, title, description,
               settingVars>>

\* One Pipe under every structural call.
OnePipe == {"p1"}

Next ==
  \/ Idle /\ \E p \in OnePipe, i \in Indexes, bs \in SeqsUpTo(Bricks, MaxArgs) : InsertBrick(p, i, bs)
  \/ Idle /\ \E p \in OnePipe, bs \in SeqsUpTo(Bricks, MaxArgs) : AddBrick(p, bs)
  \/ Idle /\ \E p \in OnePipe, es \in SeqsUpTo(Elements, MaxArgs) : RemoveBrick(p, es)
  \/ Idle /\ \E p \in OnePipe : GetView(p)
  \/ Return

Spec == Init /\ [][Next]_vars

\* Two Pipes sharing the bricks, one brick or one element per call.
NextPipes ==
  \/ Idle /\ \E p \in Pipes, i \in Indexes, b \in Bricks : InsertBrick(p, i, <<b>>)
  \/ Idle /\ \E p \in Pipes, b \in Bricks : AddBrick(p, <<b>>)
  \/ Idle /\ \E p \in Pipes, e \in Elements : RemoveBrick(p, <<e>>)
  \/ Idle /\ \E p \in Pipes : GetView(p)
  \/ Return

SpecPipes == Init /\ [][NextPipes]_vars

\* One Pipe that is filled, titled, serialized and extracted.
NextSerial ==
  \/ Idle /\ \E p \in OnePipe, bs \in SeqsUpTo(Bricks, MaxArgs) : AddBrick(p, bs)
  \/ Idle /\ \E p \in OnePipe, t \in Titles : SetTitle(p, t)
  \/ Idle /\ \E p \in OnePipe, d \in Titles : SetDescription(p, d)
  \/ Idle /\ \E p \in OnePipe : SerializeCall(p)
  \/ Idle /\ \E d \in ExtractInputs(OnePipe) : ExtractCall(d)
  \/ Return

SpecSerial == Init /\ [][NextSerial]_vars

\* ---------------------------------------------------------------- Setting calls
pipeVars == <<bricks, brickPipe, view, children, createViewCalls,
              title, description, call, thrown, result>>

\* No call on the Setting is in progress.
SettingIdle == scall = NoSettingCall

\* new Setting(name, spec), with any default value and callbacks.
InitSetting ==
  /\ InitPipe
  /\ \E default \in Values, validate \in Validators, filter \in Filters,
        randomize \in Randomizers :
       /\ setting = NewSetting(default, validate, filter, randomize)
       /\ scall = [NoSettingCall EXCEPT !.op = "constructor", !.raw = default]
  /\ notified = <<>>
  /\ previous = NoPrevious

\* Writes the state a call on the Setting leaves behind; a call that does
\* not throw returns the Setting.
SettingCommit(op, raw, sender, st) ==
  /\ setting' = st.setting
  /\ notified' = st.notified
  /\ scall' = [op |-> op, raw |-> raw, sender |-> sender, thrown |-> st.thrown,
               returned |-> IF st.thrown = "none" THEN "this" ELSE "undefined"]
  /\ UNCHANGED <<previous, pipeVars>>

SetDelegate(delegate) ==
  /\ SettingIdle
  /\ SettingCommit("setDelegate", "undefined", delegate,
                   [SettingState EXCEPT !.setting.delegate = delegate])

SetValue(raw, sender) ==
  /\ SettingIdle
  /\ \E st \in {SetValueOn(SettingState, raw, sender, 0)} :
       SettingCommit("setValue", raw, sender, st)

\* revalidateValue() is setValue(getValue())
RevalidateValue ==
  /\ SettingIdle
  /\ \E st \in {SetValueOn(SettingState, setting.value, Null, 0)} :
       SettingCommit("revalidateValue", setting.value, Null, st)

\* randomize(random) is setValue(randomizeValue(random))
Randomize ==
  /\ SettingIdle
  /\ \E value \in RandomizeValue(setting) :
       \E st \in {SetValueOn(SettingState, value, Null, 0)} :
         SettingCommit("randomize", value, Null, st)

\* serializeValue(): returns the value, or throws when its type is unsafe.
SerializeValue ==
  /\ SettingIdle
  /\ scall' = [NoSettingCall EXCEPT
                 !.op = "serializeValue",
                 !.thrown = IF Serializable(setting.value) THEN "none" ELSE "Error",
                 !.returned = IF Serializable(setting.value) THEN setting.value
                              ELSE "undefined"]
  /\ notified' = <<>>
  /\ UNCHANGED <<setting, previous, pipeVars>>

\* extractValue(data) is setValue(data)
ExtractValue(data) ==
  /\ SettingIdle
  /\ \E st \in {SetValueOn(SettingState, data, Null, 0)} :
       SettingCommit("extractValue", data, Null, st)

\* The call on the Setting has come back to its caller.
SettingReturn ==
  /\ ~SettingIdle
  /\ scall' = NoSettingCall
  /\ notified' = <<>>
  /\ previous' = [call |-> scall, notifications |-> Len(notified)]
  /\ UNCHANGED <<setting, pipeVars>>

NextSetting ==
  \/ SettingIdle /\ \E d \in Delegates \cup {Null} : SetDelegate(d)
  \/ SettingIdle /\ \E raw \in Values, sender \in Delegates \cup {Null} : SetValue(raw, sender)
  \/ SettingIdle /\ RevalidateValue
  \/ SettingIdle /\ Randomize
  \/ SettingIdle /\ SerializeValue
  \/ SettingIdle /\ \E data \in Values : ExtractValue(data)
  \/ SettingReturn

SpecSetting == InitSetting /\ [][NextSetting]_vars

\* ---------------------------------------------------------------- properties
StructuralOps == {"insertBrick", "addBrick", "removeBrick"}

\* The child list a view aligned with the brick array arr would hold.
ViewsOf(arr) == [i \in 1..Len(arr) |-> BrickView(arr[i])]

\* C1: whenever a Pipe's view exists, its child list has the length of the
\* brick array and its i-th child is the view of the i-th brick.
C1_ViewAligned ==
  \A p \in Pipes : view[p] # Null => children[p] = ViewsOf(bricks[p])

\* C2: addBrick(b1..bn), and insertBrick(-1, b1..bn), leave the previous
\* bricks in place and put b1..bn behind them, at positions k..k+n-1.
C2_AddAtTail ==
  [][(call'.op = "addBrick" \/ (call'.op = "insertBrick" /\ call'.index = -1))
       => bricks'[call'.pipe] = bricks[call'.pipe] \o call'.bricks]_vars

\* C3: insertBrick(i, b1..bn) with 0 <= i <= length yields old[0..i), then
\* b1..bn, then old[i..]; the length grows by n and every inserted brick's
\* back-reference is the Pipe.
C3_InsertAtIndex ==
  [][(/\ call'.op = "insertBrick"
      /\ 0 <= call'.index
      /\ call'.index <= Len(bricks[call'.pipe]))
       => LET p == call'.pipe
              old == bricks[p]
              i == call'.index
              bs == call'.bricks
          IN /\ thrown' = "none"
             /\ bricks'[p] = SubSeq(old, 1, i) \o bs \o SubSeq(old, i + 1, Len(old))
             /\ Len(bricks'[p]) = Len(old) + Len(bs)
             /\ \A b \in Range(bs) : brickPipe'[b] = p]_vars

\* An insert of one brick between two bricks that were already there.
C3_Witness ==
  /\ call.op = "insertBrick"
  /\ call.index = 1
  /\ Len(call.bricks) = 1
  /\ Len(bricks[call.pipe]) = 3
  /\ bricks[call.pipe][2] = call.bricks[1]
  /\ brickPipe[call.bricks[1]] = call.pipe

\* C4: a brick's back-reference is P exactly when the brick is an element of
\* P's brick array; hence it is null for a brick in no Pipe, and no brick is
\* in two Pipes at once.
C4_BackReference ==
  \A b \in Bricks : \A p \in Pipes : (brickPipe[b] = p) <=> (b \in Range(bricks[p]))

\* C5: a Pipe's brick array holds no brick more than once.
C5_UniqueMembership ==
  \A p \in Pipes : \A i, j \in 1..Len(bricks[p]) : i # j => bricks[p][i] # bricks[p][j]

\* A removeBrick argument that designates no brick of the array arr: a Brick
\* that is not in it, or an index outside 0..length-1.
Unresolvable(arr, e) ==
  IF e.kind = "brick" THEN e.val \notin Range(arr)
  ELSE e.val < 0 \/ e.val >= Len(arr)

\* C6: removeBrick whose every argument is a Brick not in the Pipe or an
\* index that is not valid raises no error and changes neither the brick
\* array, nor a back-reference, nor the view's children.
C6_SilentDrop ==
  [][(/\ call'.op = "removeBrick"
      /\ \A k \in 1..Len(call'.elements) :
           Unresolvable(bricks[call'.pipe], call'.elements[k]))
       => /\ thrown' = "none"
          /\ bricks' = bricks
          /\ brickPipe' = brickPipe
          /\ children' = children]_vars

\* The indexes of arr designated by the arguments that resolve to a valid index.
Designated(arr, elements) ==
  {MapToIndex(arr, elements[k]) : k \in 1..Len(elements)} \cap (0..(Len(arr) - 1))

\* arr without the elements at the 0-based indexes in drop, order kept.
RECURSIVE Without(_, _, _)
Without(arr, drop, from) ==
  IF from > Len(arr) THEN <<>>
  ELSE (IF (from - 1) \in drop THEN <<>> ELSE <<arr[from]>>) \o Without(arr, drop, from + 1)

\* The argument lists that are permutations of elements.
PermutationsOf(elements) ==
  {[k \in 1..Len(elements) |-> elements[f[k]]] :
     f \in {g \in [1..Len(elements) -> 1..Len(elements)] :
              \A a, b \in 1..Len(elements) : a # b => g[a] # g[b]}}

\* C7: removeBrick removes exactly the bricks whose argument resolves to a
\* valid index at call time, leaves the others in their order, and every
\* permutation of the arguments gives the same Pipe state.
C7_RemovalRobust ==
  [][call'.op = "removeBrick"
       => LET p == call'.pipe
              old == bricks[p]
          IN /\ bricks'[p] = Without(old, Designated(old, call'.elements), 1)
             /\ \A es \in PermutationsOf(call'.elements) :
                  LET st == RemoveBrickOn(p, PipeState(p), es)
                  IN /\ st.bricks = bricks'[p]
                     /\ st.brickPipe = brickPipe'
                     /\ st.children = children'[p]]_vars

\* C8: Pipe.extract(p.serialize()) returns a Pipe whose serialize() output
\* equals p.serialize(): same title, description and brick records in order.
C8_RoundTrip ==
  (call.op = "extract" /\ IsArray(call.data))
    => /\ thrown = "none"
       /\ result.pipe # Null
       /\ result.serialized = call.data

\* C9: Pipe.extract(data) with data.bricks not an array throws the
\* malformed-data Error before any Brick is extracted and returns no Pipe.
C9_MalformedData ==
  (call.op = "extract" /\ ~IsArray(call.data))
    => /\ thrown = "Error"
       /\ result.bricksExtracted = 0
       /\ result.pipe = Null

\* Pipe.extract was given data whose bricks is an object and threw.
C9_Witness ==
  /\ call.op = "extract"
  /\ call.data.bricksType = "object"
  /\ call.data.title = "demo"
  /\ thrown = "Error"

\* C10: insertBrick, addBrick and removeBrick on a Pipe that has no view
\* leave it without a view.
C10_LazyView ==
  [][(call'.op \in StructuralOps /\ view[call'.pipe] = Null)
       => view'[call'.pipe] = Null]_vars

\* C11: createView runs at most once per Pipe, and once a Pipe has a view
\* every later call leaves that same view in place.
C11_ViewMemoized ==
  [][\A p \in Pipes :
       /\ createViewCalls'[p] <= 1
       /\ view[p] # Null => (view'[p] = view[p] /\ createViewCalls'[p] = createViewCalls[p])]_vars

\* getView() called on a Pipe whose view an earlier insertBrick had created.
C11_Witness ==
  /\ call.op = "getView"
  /\ Len(bricks[call.pipe]) = 2
  /\ view[call.pipe] = CreateView(call.pipe)
  /\ createViewCalls[call.pipe] = 1

\* C12: setValue with a raw value that fails validation throws nothing, sets
\* the valid flag to false, stores the raw value unfiltered and makes no
\* delegate call; setValue with a raw value that passes validation, made on
\* a Setting left invalid, sets the flag to true and stores the filtered value.
C12_ValidationGate ==
  [][scall'.op = "setValue"
       => IF ~ValidateValue(setting, scall'.raw)
          THEN /\ scall'.thrown = "none"
               /\ setting'.valid = FALSE
               /\ setting'.value = scall'.raw
               /\ notified' = <<>>
          ELSE ~setting.valid
                 => /\ setting'.valid = TRUE
                    /\ setting'.value = FilterValue(setting, scall'.raw)]_vars

\* A string offered to a Setting that validates numbers and filters strings:
\* it is stored as given, the previous call having stored a number.
C12_Witness ==
  /\ scall.op = "setValue"
  /\ scall.raw = "'ABC'"
  /\ setting.validateValueCallback = "isNumber"
  /\ setting.filterValueCallback = "lowerCase"
  /\ setting.delegate = "observer"
  /\ previous.call.op = "setValue"
  /\ previous.call.raw = "5"
  /\ ~setting.valid
  /\ setting.value = "'ABC'"
  /\ notified = <<>>

\* C13: of two consecutive setValue calls whose raw values pass validation
\* and filter to strictly equal results, the second makes no delegate call
\* and leaves the stored value as it is, and the first made at most one.
C13_IdempotentNotification ==
  [][(/\ scall'.op = "setValue"
      /\ previous.call.op = "setValue"
      /\ ValidateValue(setting, previous.call.raw)
      /\ ValidateValue(setting, scall'.raw)
      /\ ~StrictNotEqual(FilterValue(setting, previous.call.raw),
                         FilterValue(setting, scall'.raw)))
       => /\ notified' = <<>>
          /\ setting'.value = setting.value
          /\ previous.notifications <= 1]_vars

\* 'ABC' then 'abc' set on a Setting that lowers strings: the observer was
\* told of the first and not of the second.
C13_Witness ==
  /\ scall.op = "setValue"
  /\ scall.raw = "'abc'"
  /\ scall.sender = Null
  /\ previous.call.op = "setValue"
  /\ previous.call.raw = "'ABC'"
  /\ previous.notifications = 1
  /\ setting.filterValueCallback = "lowerCase"
  /\ setting.delegate = "observer"
  /\ setting.value = "'abc'"
  /\ notified = <<>>

\* C14: setValue(v, sender) with sender the Setting's delegate makes no
\* delegate call, and leaves the value and the valid flag that the same call
\* with any other sender leaves.
C14_SenderSuppression ==
  [][(/\ scall'.op = "setValue"
      /\ setting.delegate # Null
      /\ scall'.sender = setting.delegate)
       => /\ notified' = <<>>
          /\ \A other \in Delegates \cup {Null} :
               LET st == SetValueOn(SettingState, scall'.raw, other, 0)
               IN /\ st.setting.value = setting'.value
                  /\ st.setting.valid = setting'.valid]_vars

\* The delegate itself changes the value from 0 to 5 and is not called.
C14_Witness ==
  /\ scall.op = "setValue"
  /\ scall.raw = "5"
  /\ scall.sender = "reenterer"
  /\ setting.delegate = "reenterer"
  /\ setting.validateValueCallback = "isNumber"
  /\ setting.filterValueCallback = "none"
  /\ previous.call.op = "setValue"
  /\ previous.call.raw = "0"
  /\ setting.value = "5"
  /\ setting.valid
  /\ notified = <<>>

\* C15: setValue(raw, sender) with raw passing validation and the filtered
\* value strictly different from the stored one stores the filtered value
\* and sets the flag; when a delegate is set and is not the sender the call
\* makes exactly one delegate call, with the filtered value, and the delegate
\* reads that value from the Setting; otherwise it makes none.
C15_ChangeNotification ==
  [][(/\ scall'.op = "setValue"
      /\ ValidateValue(setting, scall'.raw)
      /\ StrictNotEqual(setting.value, FilterValue(setting, scall'.raw)))
       => LET value == FilterValue(setting, scall'.raw)
              own == SelectSeq(notified', LAMBDA n : n.depth = 0)
          IN /\ setting'.value = value
             /\ setting'.valid = TRUE
             /\ IF setting.delegate # Null /\ setting.delegate # scall'.sender
                THEN /\ Len(own) = 1
                     /\ notified'[1] = [delegate |-> setting.delegate, value |-> value,
                                        read |-> value, depth |-> 0]
                ELSE notified' = <<>>]_vars

\* 'ABC' set by a sender that is not the delegate, on a Setting that held
\* 5: the observer is called once with 'abc'.
C15_Witness ==
  /\ scall.op = "setValue"
  /\ scall.raw = "'ABC'"
  /\ scall.sender = "reenterer"
  /\ setting.delegate = "observer"
  /\ setting.filterValueCallback = "lowerCase"
  /\ previous.call.op = "setValue"
  /\ previous.call.raw = "5"
  /\ previous.call.thrown = "none"
  /\ setting.validateValueCallback = "none"
  /\ setting.value = "'abc'"
  /\ Len(notified) = 1
  /\ notified[1].value = "'abc'"
  /\ notified[1].read = "'abc'"

\* C16: serializeValue() returns the value when its type is boolean, number
\* or string and throws otherwise; either way the Setting's value, flag and
\* delegate stay as they are and no delegate call is made.
C16_UnsafeValueType ==
  [][scall'.op = "serializeValue"
       => /\ IF TypeOf(setting.value) \in {"boolean", "number", "string"}
             THEN scall'.thrown = "none" /\ scall'.returned = setting.value
             ELSE scall'.thrown = "Error"
          /\ setting' = setting
          /\ notified' = <<>>]_vars

\* serializeValue() as the first call on a Setting constructed without a
\* default value: it throws.
C16_Witness ==
  /\ scall.op = "serializeValue"
  /\ previous.call.op = "constructor"
  /\ previous.call.raw = "undefined"
  /\ setting.value = Null
  /\ scall.thrown = "Error"

\* C17: a Setting constructed with a default value of type boolean, number
\* or string holds that value, and holds null only when constructed with no
\* default value.
C17_DefaultValue ==
  scall.op = "constructor"
    => /\ TypeOf(scall.raw) \in {"boolean", "number", "string"} => setting.value = scall.raw
       /\ setting.value = Null => scall.raw \in {"undefined", "null"}

\* The calls that run setValue with the delegate not as sender.
SetValueOps == {"setValue", "revalidateValue", "randomize", "extractValue"}

\* C18 as claimed: whenever a delegate that re-enters setValue with the same
\* raw value has been called, the call returns without exception and the
\* delegate has been called exactly once.
C18_ReentrancyTerminates ==
  (scall.op \in SetValueOps /\ setting.delegate = "reenterer" /\ notified # <<>>)
    => /\ scall.thrown = "none"
       /\ Len(notified) = 1

\* C18 amended: the same, for a raw value that the filter takes to strictly
\* equal results on every application, filterValue(raw) === filterValue(raw);
\* NaN and a filter that builds a new array on each call are not such.
C18_ReentrancyTerminatesEqualityStable ==
  (/\ scall.op \in SetValueOps
   /\ setting.delegate = "reenterer"
   /\ notified # <<>>
   /\ ~StrictNotEqual(FilterValue(setting, scall.raw), FilterValue(setting, scall.raw)))
    => /\ scall.thrown = "none"
       /\ Len(notified) = 1
       /\ notified[1].depth = 0
       /\ setting.value = notified[1].value

\* The re-entering delegate has been told of 'abc' and has called setValue
\* with 'ABC' again from inside the callback.
C18_Witness ==
  /\ scall.op = "setValue"
  /\ scall.raw = "'ABC'"
  /\ scall.sender = Null
  /\ setting.delegate = "reenterer"
  /\ setting.filterValueCallback = "lowerCase"
  /\ scall.thrown = "none"
  /\ Len(notified) = 1
  /\ notified[1].value = "'abc'"

\* C19 as claimed: after revalidateValue() the valid flag is the validator's
\* verdict on the value held before the call, the value is unchanged and no
\* delegate call has been made.
C19_RevalidateOnlyFlag ==
  [][scall'.op = "revalidateValue"
       => /\ setting'.valid = ValidateValue(setting, setting.value)
          /\ setting'.value = setting.value
          /\ notified' = <<>>]_vars

\* C19 amended: the flag is the verdict in every case; the value is unchanged
\* and no delegate call is made when the held value fails validation or is
\* strictly equal to its own filtered value.
C19_RevalidateFixedPoint ==
  [][scall'.op = "revalidateValue"
       => /\ setting'.valid = ValidateValue(setting, setting.value)
          /\ (\/ ~ValidateValue(setting, setting.value)
              \/ ~StrictNotEqual(setting.value, FilterValue(setting, setting.value)))
               => /\ scall'.thrown = "none"
                  /\ setting'.value = setting.value
                  /\ notified' = <<>>]_vars

\* revalidateValue() on a Setting that lowers strings and holds 'abc', which
\* setValue('ABC') had stored: 'abc' stays and the observer is not called.
C19_Witness ==
  /\ scall.op = "revalidateValue"
  /\ scall.raw = "'abc'"
  /\ previous.call.op = "setValue"
  /\ previous.call.raw = "'ABC'"
  /\ setting.validateValueCallback = "isString"
  /\ setting.filterValueCallback = "lowerCase"
  /\ setting.delegate = "observer"
  /\ setting.valid
  /\ setting.value = "'abc'"
  /\ notified = <<>>

\* The bricks of arr at the 0-based indexes in idx.
BricksAt(arr, idx) == {arr[i + 1] : i \in idx}

\* C20: removeBrick whose every argument resolves to a valid index removes
\* each designated brick once, also when two arguments designate the same
\* brick: the bricks not designated stay in the Pipe with their
\* back-reference, and the length drops by the number of designated bricks.
C20_OnlyDesignatedRemoved ==
  [][(/\ call'.op = "removeBrick"
      /\ \A k \in 1..Len(call'.elements) :
           ~Unresolvable(bricks[call'.pipe], call'.elements[k])
      /\ Cardinality(Designated(bricks[call'.pipe], call'.elements))
           < Len(call'.elements))
       => LET p == call'.pipe
              old == bricks[p]
              designated == Designated(old, call'.elements)
              kept == (0..(Len(old) - 1)) \ designated
          IN /\ thrown' = "none"
             /\ Len(bricks'[p]) = Len(old) - Cardinality(designated)
             /\ \A i \in kept : old[i + 1] \in Range(bricks'[p])
             /\ \A b \in BricksAt(old, kept) \ BricksAt(old, designated) :
                  brickPipe'[b] = brickPipe[b]]_vars

====
